---- MODULE Spec2Model ----
(***************************************************************************)
(* Model of the knowledge-assisted chat backend:                           *)
(*   src/smart_server.py    retrieval and answering service                *)
(*   src/hent_wikipedia.py  article ingestor (chunker, fetch loop)         *)
(* Python strings are TLA+ strings; Len, SubSeq and \o act on them         *)
(* character by character.                                                 *)
(***************************************************************************)
EXTENDS Integers, Sequences, FiniteSets, TLC

VARIABLES
    \* smart_server.py: process state
    fase,           \* position of the __main__ script
    mappe,          \* the files of knowledge_base/ in glob order
    kunnskap,       \* the global dict kunnskap, in insertion order
    client,         \* the global client
    miljo,          \* environment: openai importable, OPENAI_API_KEY set
    respons,        \* the HTTP response of the last request
    kall,           \* the completion call issued by the last request
    \* sok_lokal_kunnskap: arguments, locals and result
    sporsmal, alle_ord, resultater,
    \* chunk_text: arguments and result
    text, chunk_size, chunks,
    \* build_knowledge_base: argument, loop position, disk, output
    articles_config, idx, data, filer, logg, sovet,
    \* position of the routine under study
    pc

vars == << fase, mappe, kunnskap, client, miljo, respons, kall,
           sporsmal, alle_ord, resultater, text, chunk_size, chunks,
           articles_config, idx, data, filer, logg, sovet, pc >>

-----------------------------------------------------------------------------
(* Python str primitives *)

Min(a, b) == IF a <= b THEN a ELSE b

Chr(s, i) == SubSeq(s, i, i)

\* str.isspace() of one character, over the characters the model uses
Whitespace == {" ", "\t", "\n"}

Uppers == "ABCDEFGHIJKLMNOPQRSTUVWXYZÆØÅ"
Lowers == "abcdefghijklmnopqrstuvwxyzæøå"

LowerChar(c) ==
    IF \E i \in 1..Len(Uppers) : Chr(Uppers, i) = c
    THEN Chr(Lowers, CHOOSE i \in 1..Len(Uppers) : Chr(Uppers, i) = c)
    ELSE c

RECURSIVE Lower(_)
\* str.lower()
Lower(s) ==
    IF s = "" THEN "" ELSE LowerChar(Chr(s, 1)) \o Lower(SubSeq(s, 2, Len(s)))

\* the Python expression  w in s  on strings
Contains(s, w) ==
    \E i \in 1..(Len(s) - Len(w) + 1) : SubSeq(s, i, i + Len(w) - 1) = w

RECURSIVE LStrip(_)
LStrip(s) ==
    IF s # "" /\ Chr(s, 1) \in Whitespace THEN LStrip(SubSeq(s, 2, Len(s))) ELSE s

RECURSIVE RStrip(_)
RStrip(s) ==
    IF s # "" /\ Chr(s, Len(s)) \in Whitespace
    THEN RStrip(SubSeq(s, 1, Len(s) - 1)) ELSE s

\* str.strip()
Strip(s) == RStrip(LStrip(s))

RECURSIVE SplitFrom(_, _, _, _)
\* the pieces of s from position i on, cur being the piece read so far
SplitFrom(s, sep, i, cur) ==
    IF i > Len(s) THEN << cur >>
    ELSE IF Chr(s, i) = sep
         THEN << cur >> \o SplitFrom(s, sep, i + 1, "")
         ELSE SplitFrom(s, sep, i + 1, cur \o Chr(s, i))

\* str.split(sep) for a one-character sep
SplitOn(s, sep) == SplitFrom(s, sep, 1, "")

RECURSIVE SplitWs(_, _)
\* str.split() without arguments: runs of whitespace separate, no empty pieces
SplitWs(s, cur) ==
    IF s = "" THEN (IF cur = "" THEN << >> ELSE << cur >>)
    ELSE IF Chr(s, 1) \in Whitespace
         THEN (IF cur = "" THEN << >> ELSE << cur >>)
              \o SplitWs(SubSeq(s, 2, Len(s)), "")
         ELSE SplitWs(SubSeq(s, 2, Len(s)), cur \o Chr(s, 1))

Range(q) == { q[i] : i \in 1..Len(q) }

-----------------------------------------------------------------------------
(* smart_server.py: tables *)

SYNONYMER ==
    [ o \in { "øyestyring", "øyesporing", "blikk", "hjelpemiddel", "als",
              "kommunikasjon", "handicap", "tale", "låst", "tobii" } |->
      CASE o = "øyestyring" ->
             { "eye tracking", "gaze", "blikk", "eye-tracking", "øyesporing" }
        [] o = "øyesporing" -> { "eye tracking", "gaze tracking", "øyestyring" }
        [] o = "blikk" -> { "gaze", "eye", "øye", "looking" }
        [] o = "hjelpemiddel" ->
             { "assistive technology", "assistive device", "aid",
               "communication device" }
        [] o = "als" ->
             { "amyotrophic lateral sclerosis", "amyotrofisk lateralsklerose",
               "lou gehrig" }
        [] o = "kommunikasjon" ->
             { "communication", "aac", "augmentative", "alternative" }
        [] o = "handicap" -> { "disability", "funksjonshemning", "impairment" }
        [] o = "tale" -> { "speech", "stemme", "voice" }
        [] o = "låst" -> { "locked-in", "låsning", "locked in" }
        [] o = "tobii" -> { "eye tracker", "øyesporing", "gaze interaction" } ]

DOMENE_ORD ==
    << "øye", "eye", "gaze", "blikk", "sporing", "tracking", "styring",
       "als", "lou gehrig", "lateralsklerose", "scleros",
       "hjelpemiddel", "assistive", "kommunikasjon", "communication", "aac",
       "handicap", "disability", "funksjonshemning", "låsning", "locked",
       "tobii", "dynavox", "irisbond", "tellus", "acapela",
       "stemme", "tale", "språk", "language", "snakke", "speak" >>

-----------------------------------------------------------------------------
(* smart_server.py: classification and retrieval *)

\* a question word must equal a domain word
er_domenesporsmal_mutant(q) ==
    \E k \in 1..Len(DOMENE_ORD) : DOMENE_ORD[k] \in Range(SplitWs(Lower(q), ""))

\* lines 68-71
er_domenesporsmal(q) ==
    LET sporsmal_lower == Lower(q)
    IN  \E k \in 1..Len(DOMENE_ORD) : Contains(sporsmal_lower, DOMENE_ORD[k])

RECURSIVE UtvidLoop(_, _)
\* the loop of lines 79-81 over the token list, acc is alle_ord
UtvidLoop(sokeord, acc) ==
    IF sokeord = << >> THEN acc
    ELSE LET ordet == Head(sokeord)
         IN  UtvidLoop(Tail(sokeord),
                       IF ordet \in DOMAIN SYNONYMER
                       THEN acc \cup SYNONYMER[ordet] ELSE acc)

RECURSIVE UtvidTransitivt(_)
UtvidTransitivt(acc) ==
    LET neste == acc \cup UNION { SYNONYMER[o] : o \in acc \cap DOMAIN SYNONYMER }
    IN  IF neste = acc THEN acc ELSE UtvidTransitivt(neste)

UtvidMutant(q) == UtvidTransitivt(Range(SplitWs(Lower(q), "")))

\* lines 75-81: sokeord, alle_ord
Utvid(q) ==
    LET sokeord == SplitWs(Lower(q), "")
    IN  UtvidLoop(sokeord, Range(sokeord))

RECURSIVE ScoreLoop(_, _)
\* the loop of lines 90-92 over the set alle_ord
ScoreLoop(ord, tekst_lower) ==
    IF ord = {} THEN 0
    ELSE LET ordet == CHOOSE o \in ord : TRUE
         IN  (IF Contains(tekst_lower, ordet) THEN 1 ELSE 0)
             + ScoreLoop(ord \ {ordet}, tekst_lower)

RECURSIVE Forekomster(_, _)
\* number of positions of s at which w occurs
Forekomster(s, w) ==
    IF Len(s) < Len(w) THEN 0
    ELSE (IF SubSeq(s, 1, Len(w)) = w THEN 1 ELSE 0)
         + Forekomster(SubSeq(s, 2, Len(s)), w)

RECURSIVE ScoreMutantLoop(_, _)
ScoreMutantLoop(ord, tekst_lower) ==
    IF ord = {} THEN 0
    ELSE LET ordet == CHOOSE o \in ord : TRUE
         IN  Forekomster(tekst_lower, ordet)
             + ScoreMutantLoop(ord \ {ordet}, tekst_lower)

ScoreMutant(ord, chunktext) == ScoreMutantLoop(ord, Lower(chunktext))

\* lines 87-92: the score of one chunk
Score(ord, chunktext) == ScoreLoop(ord, Lower(chunktext))

RECURSIVE ChunkLoop(_, _, _)
\* lines 86-100 for one article: the entries it appends to resultater
ChunkLoop(artikkel, cs, ord) ==
    IF cs = << >> THEN << >>
    ELSE LET chunk == Head(cs)
             score == Score(ord, chunk.text)
         IN  (IF score > 0
              THEN << [ tekst |-> chunk.text,
                        kilde |-> artikkel.metadata.title,
                        url   |-> artikkel.metadata.source_url,
                        score |-> score ] >>
              ELSE << >>)
             \o ChunkLoop(artikkel, Tail(cs), ord)

RECURSIVE ArtikkelLoop(_, _)
\* lines 85-100: kunnskap.items() in insertion order
ArtikkelLoop(kb, ord) ==
    IF kb = << >> THEN << >>
    ELSE ChunkLoop(Head(kb).artikkel, Head(kb).artikkel.chunks, ord)
         \o ArtikkelLoop(Tail(kb), ord)

RECURSIVE InsertDesc(_, _)
\* x goes after every entry whose score is not smaller
InsertDesc(sorted, x) ==
    IF sorted = << >> THEN << x >>
    ELSE IF Head(sorted).score >= x.score
         THEN << Head(sorted) >> \o InsertDesc(Tail(sorted), x)
         ELSE << x >> \o sorted

RECURSIVE InsertAsc(_, _)
InsertAsc(sorted, x) ==
    IF sorted = << >> THEN << x >>
    ELSE IF Head(sorted).score <= x.score
         THEN << Head(sorted) >> \o InsertAsc(Tail(sorted), x)
         ELSE << x >> \o sorted

RECURSIVE SortAsc(_, _)
SortAsc(rest, acc) ==
    IF rest = << >> THEN acc ELSE SortAsc(Tail(rest), InsertAsc(acc, Head(rest)))

Reverse(q) == [ k \in 1..Len(q) |-> q[Len(q) + 1 - k] ]

\* ascending sort followed by reversal: equal scores come out reversed
SortMutant(res) == Reverse(SortAsc(res, << >>))

RECURSIVE SortDescLoop(_, _)
SortDescLoop(rest, acc) ==
    IF rest = << >> THEN acc
    ELSE SortDescLoop(Tail(rest), InsertDesc(acc, Head(rest)))

\* line 103: list.sort(key=score, reverse=True), a stable sort
SortByScore(res) == SortDescLoop(res, << >>)

\* line 104: the slice [:3]
TopN == 3

sok_lokal_kunnskap(q, kb) ==
    LET sorted == SortByScore(ArtikkelLoop(kb, Utvid(q)))
    IN  SubSeq(sorted, 1, Min(TopN, Len(sorted)))

-----------------------------------------------------------------------------
(* Persisted article files, as save_article writes them and json.load reads
   them (the fields the service reads, and the chunk ids and indexes) *)

RECURSIVE ChunkRecords(_, _, _)
ChunkRecords(safe_title, texts, i) ==
    IF texts = << >> THEN << >>
    ELSE << [ id |-> safe_title \o "_" \o ToString(i),
              text |-> Head(texts), index |-> i ] >>
         \o ChunkRecords(safe_title, Tail(texts), i + 1)

\* knowledge_base/<lang>_<safe_title>.json and its key fil.stem
Fil(lang, safe_title, title, url, texts) ==
    [ navn |-> lang \o "_" \o safe_title,
      artikkel |-> [ metadata |-> [ title |-> title, language |-> lang,
                                    source_url |-> url,
                                    chunk_count |-> Len(texts) ],
                     chunks |-> ChunkRecords(safe_title, texts, 0) ] ]

T5a == "Øyestyring: eye tracking, gaze, blikk, øyesporing"
T5b == "gaze blikk eye-tracking øyesporing øyestyring"
T3  == "Gaze, gaze and blikk with eye-tracking"
T1  == "Eye tracking uses infrared cameras."
T0  == "ALS affects motor neurons."

FilEyeTracking ==
    Fil("en", "Eye_tracking", "Eye tracking",
        "https://en.wikipedia.org/wiki/Eye_tracking", << T5a, T5b, T3, T1, T0 >>)
FilGaze ==
    Fil("en", "Gaze", "Gaze", "https://en.wikipedia.org/wiki/Gaze", << T3, T5b >>)
FilALS ==
    Fil("en", "Amyotrophic_lateral_sclerosis", "Amyotrophic lateral sclerosis",
        "https://en.wikipedia.org/wiki/ALS", << T0 >>)
FilOyesporing ==
    Fil("no", "Øyesporing", "Øyesporing",
        "https://no.wikipedia.org/wiki/Øyesporing", << T1, T3 >>)

FilPool == { FilEyeTracking, FilGaze, FilALS, FilOyesporing }

\* the most files knowledge_base/ holds
MaxArticles == 2

\* directory listings: distinct files (file names are unique), in any order
Mapper ==
    UNION { { m \in [ 1..n -> FilPool ] :
                \A a, b \in 1..n : a # b => m[a] # m[b] } : n \in 0..MaxArticles }

-----------------------------------------------------------------------------
(* Questions *)

QueryWords == { "øyestyring", "Blikk", "gaze", "weather" }
Separators == { " ", "  " }

\* the most words of a generated question
MaxQueryWords == 2

RECURSIVE JoinWith(_, _)
JoinWith(ws, sep) ==
    IF Len(ws) = 0 THEN ""
    ELSE IF Len(ws) = 1 THEN ws[1]
    ELSE ws[1] \o sep \o JoinWith(Tail(ws), sep)

Questions ==
    { JoinWith(ws, sep) :
        ws \in UNION { [ 1..n -> QueryWords ] : n \in 0..MaxQueryWords },
        sep \in Separators }

-----------------------------------------------------------------------------
(* Placeholders for the variables a specification does not use *)

ServerIdle ==
    /\ fase = "-" /\ mappe = << >> /\ client = "-" /\ miljo = "-"
    /\ respons = "-" /\ kall = "-"
SokIdle == sporsmal = "" /\ alle_ord = {} /\ resultater = << >>
ChunkIdle == text = "" /\ chunk_size = 0 /\ chunks = << >>
BuildIdle ==
    /\ articles_config = << >> /\ idx = 0 /\ data = "-" /\ filer = << >>
    /\ logg = << >> /\ sovet = 0

serverVars == << fase, mappe, client, miljo, respons, kall >>
sokVars == << sporsmal, alle_ord, resultater >>
chunkVars == << text, chunk_size, chunks >>
buildVars == << articles_config, idx, data, filer, logg, sovet >>

-----------------------------------------------------------------------------
(* SpecSok: sok_lokal_kunnskap applied to a question and a loaded knowledge
   base *)

InitSok ==
    /\ ServerIdle /\ ChunkIdle /\ BuildIdle
    /\ kunnskap \in Mapper
    /\ sporsmal \in Questions
    /\ alle_ord = {}
    /\ resultater = << >>
    /\ pc = "start"

SokLokalKunnskap ==
    /\ pc = "start"
    /\ alle_ord' = Utvid(sporsmal)
    /\ resultater' = sok_lokal_kunnskap(sporsmal, kunnskap)
    /\ pc' = "done"
    /\ UNCHANGED << sporsmal, kunnskap, serverVars, chunkVars, buildVars >>

NextSok == SokLokalKunnskap

SpecSok == InitSok /\ [][NextSok]_vars

-----------------------------------------------------------------------------
(* Retrieval: what the result is compared with *)

\* the maximal whitespace-free pieces of the lowercased question
Tokens(q) ==
    LET l == Lower(q)
        n == Len(l)
    IN  { SubSeq(l, p[1], p[2]) :
            p \in { r \in (1..n) \X (1..n) :
                      /\ r[1] <= r[2]
                      /\ \A k \in r[1]..r[2] : Chr(l, k) \notin Whitespace
                      /\ r[1] = 1 \/ Chr(l, r[1] - 1) \in Whitespace
                      /\ r[2] = n \/ Chr(l, r[2] + 1) \in Whitespace } }

\* tokens plus the direct synonyms of the tokens that are keys
OneLevel(q) ==
    Tokens(q) \cup UNION { SYNONYMER[t] : t \in Tokens(q) \cap DOMAIN SYNONYMER }

DistinctIn(ord, lowered) == Cardinality({ t \in ord : Contains(lowered, t) })

\* the number of distinct terms of ord occurring in the lowercased chunk text
DistinctMatches(ord, chunktext) == DistinctIn(ord, Lower(chunktext))

\* chunk positions <<article, chunk>> of the loaded knowledge base
Positions ==
    UNION { { << a, c >> : c \in 1..Len(kunnskap[a].artikkel.chunks) } :
              a \in 1..Len(kunnskap) }

ChunkAt(p) == kunnskap[p[1]].artikkel.chunks[p[2]]

\* the score of every position against the term set ord
ScoresFor(ord) == [ p \in Positions |-> DistinctMatches(ord, ChunkAt(p).text) ]

\* insertion order: article load order, then chunk index
Before(p, r) == p[1] < r[1] \/ (p[1] = r[1] /\ p[2] < r[2])

\* the number of chunks with a positive score in sc ranked ahead of p
Rank(sc, p) ==
    Cardinality({ r \in DOMAIN sc :
                    /\ sc[r] > 0
                    /\ \/ sc[r] > sc[p]
                       \/ sc[r] = sc[p] /\ Before(r, p) })

\* C1: sok_lokal_kunnskap returns the first 3 (or fewer) positive-score
\* chunks in order of non-increasing score, equal scores in insertion order
\* (article load order, then chunk index).
C1_TopThreeStable ==
    pc = "done" =>
        \A sc \in { ScoresFor(OneLevel(sporsmal)) } :
            /\ Len(resultater) = Min(3, Cardinality({ p \in Positions : sc[p] > 0 }))
            /\ \A k \in 1..Len(resultater) :
                 \E p \in Positions :
                   /\ sc[p] > 0
                   /\ Rank(sc, p) = k - 1
                   /\ resultater[k] =
                        [ tekst |-> ChunkAt(p).text,
                          kilde |-> kunnskap[p[1]].artikkel.metadata.title,
                          url   |-> kunnskap[p[1]].artikkel.metadata.source_url,
                          score |-> sc[p] ]

\* the spec's example: scores 5,5,3,1,0 give the two 5s in order, then the 3
C1_Witness ==
    /\ pc = "done"
    /\ sporsmal = "øyestyring"
    /\ kunnskap = << FilEyeTracking >>
    /\ [ k \in 1..5 |-> ScoresFor(OneLevel(sporsmal))[<< 1, k >>] ] = << 5, 5, 3, 1, 0 >>
    /\ [ k \in 1..Len(resultater) |-> resultater[k].tekst ] = << T5a, T5b, T3 >>

\* C2: a result's score is the number of distinct terms of the expanded
\* query set that occur in the lowercased chunk text (repeated occurrences
\* and repeated query words count once); every result has a score above 0,
\* and the result is empty when no chunk scores above 0.
C2_ScoreDistinctTerms ==
    pc = "done" =>
        /\ \A k \in 1..Len(resultater) :
             /\ resultater[k].score = DistinctMatches(alle_ord, resultater[k].tekst)
             /\ resultater[k].score > 0
        /\ (\A p \in Positions : DistinctMatches(alle_ord, ChunkAt(p).text) = 0)
             => resultater = << >>

\* "gaze" twice in the question and twice in the chunk scores 1
C2_Witness ==
    /\ pc = "done"
    /\ sporsmal = "gaze  gaze"
    /\ \E k \in 1..Len(resultater) :
         resultater[k].tekst = T3 /\ resultater[k].score = 1

C2_WitnessEmpty ==
    pc = "done" /\ kunnskap # << >> /\ sporsmal # "" /\ resultater = << >>

\* C3: the expanded set is the lowercased whitespace-separated tokens plus
\* SYNONYMER[t] of each token t that is a key, one level deep: a synonym that
\* is itself a key is not expanded, a multi-word synonym stays one term.
C3_OneLevelExpansion ==
    pc = "done" =>
        /\ alle_ord = OneLevel(sporsmal)
        /\ sporsmal = "øyestyring" =>
             /\ { "eye tracking", "gaze", "blikk", "eye-tracking", "øyesporing",
                  "øyestyring" } \subseteq alle_ord
             /\ "gaze tracking" \notin alle_ord

C3_Witness ==
    /\ pc = "done"
    /\ sporsmal = "øyestyring"
    /\ "øyesporing" \in alle_ord /\ "øyesporing" \in DOMAIN SYNONYMER
    /\ "eye tracking" \in alle_ord

-----------------------------------------------------------------------------
(* hent_wikipedia.py: chunk_text *)

RECURSIVE StripNonEmpty(_)
\* line 67: [p.strip() for p in pieces if p.strip()]
StripNonEmpty(pieces) ==
    IF pieces = << >> THEN << >>
    ELSE (IF Strip(Head(pieces)) # "" THEN << Strip(Head(pieces)) >> ELSE << >>)
         \o StripNonEmpty(Tail(pieces))

\* line 67: paragraphs
Paragraphs(t) == StripNonEmpty(SplitOn(t, "\n"))

AppendChunkMutant(cs, current_chunk) == Append(cs, current_chunk)

\* lines 76 and 80: chunks.append(current_chunk.strip())
AppendChunk(cs, current_chunk) == Append(cs, Strip(current_chunk))

StartChunkMutant(current_chunk, para) == current_chunk \o para \o "\n\n"

\* line 77: current_chunk = para + "\n\n"
StartChunk(current_chunk, para) == para \o "\n\n"

RECURSIVE ChunkTextLoop(_, _, _, _)
\* lines 71-82: the loop over paragraphs, then the final flush
ChunkTextLoop(paragraphs, current_chunk, cs, size) ==
    IF paragraphs = << >>
    THEN IF current_chunk # "" THEN AppendChunk(cs, current_chunk) ELSE cs
    ELSE LET para == Head(paragraphs)
         IN  IF Len(current_chunk) + Len(para) < size
             THEN ChunkTextLoop(Tail(paragraphs), current_chunk \o para \o "\n\n",
                                cs, size)
             ELSE ChunkTextLoop(Tail(paragraphs), StartChunk(current_chunk, para),
                                IF current_chunk # ""
                                THEN AppendChunk(cs, current_chunk) ELSE cs,
                                size)

chunk_text(t, size) == ChunkTextLoop(Paragraphs(t), "", << >>, size)

-----------------------------------------------------------------------------
(* SpecChunk: chunk_text applied to a text and a chunk size *)

LinePool == { "", " ", "a", " bb " }

\* the most lines of a generated text
MaxLines == 5

\* the largest chunk_size tried
MaxChunkSize == 5

Texts ==
    { JoinWith(ls, "\n") : ls \in UNION { [ 1..n -> LinePool ] : n \in 1..MaxLines } }

InitChunk ==
    /\ ServerIdle /\ SokIdle /\ BuildIdle
    /\ kunnskap = << >>
    /\ text \in Texts
    /\ chunk_size \in 1..MaxChunkSize
    /\ chunks = << >>
    /\ pc = "start"

ChunkText ==
    /\ pc = "start"
    /\ chunks' = chunk_text(text, chunk_size)
    /\ pc' = "done"
    /\ UNCHANGED << text, chunk_size, kunnskap, serverVars, sokVars, buildVars >>

NextChunk == ChunkText

SpecChunk == InitChunk /\ [][NextChunk]_vars

-----------------------------------------------------------------------------
(* Chunking: what the result is compared with *)

Lines(t) == SplitOn(t, "\n")

Blank(line) == \A k \in 1..Len(line) : Chr(line, k) \in Whitespace

\* the paragraphs of t delimited by blank lines: each maximal run i..j of
\* non-blank lines, joined by its line breaks and trimmed
BlankLineParagraphs(t) ==
    LET ls == Lines(t)
        n  == Len(ls)
    IN  { Strip(JoinWith(SubSeq(ls, r[1], r[2]), "\n")) :
            r \in { q \in (1..n) \X (1..n) :
                      /\ q[1] <= q[2]
                      /\ \A k \in q[1]..q[2] : ~Blank(ls[k])
                      /\ q[1] = 1 \/ Blank(ls[q[1] - 1])
                      /\ q[2] = n \/ Blank(ls[q[2] + 1]) } }

\* the number of blank-line-delimited paragraphs of t
ParagraphCount(t) ==
    LET ls == Lines(t)
    IN  Cardinality({ k \in 1..Len(ls) :
                        ~Blank(ls[k]) /\ (k = 1 \/ Blank(ls[k - 1])) })

NonBlankLines(t) == { k \in 1..Len(Lines(t)) : ~Blank(Lines(t)[k]) }

\* C5: when no blank-line-delimited paragraph is longer than the chunk size,
\* every chunk is at most the chunk size plus one paragraph and its separator
\* long; every chunk is non-empty with no leading or trailing whitespace.
C5_ChunkBound ==
    pc = "done" =>
        \A k \in 1..Len(chunks) :
            /\ chunks[k] # ""
            /\ Chr(chunks[k], 1) \notin Whitespace
            /\ Chr(chunks[k], Len(chunks[k])) \notin Whitespace
            /\ (\A p \in BlankLineParagraphs(text) : Len(p) <= chunk_size)
                 => \E p \in BlankLineParagraphs(text) :
                      Len(chunks[k]) <= chunk_size + Len(p) + Len("\n\n")

\* paragraphs within the size, one chunk merging two of them, one chunk closed
C5_Witness ==
    /\ pc = "done"
    /\ \A p \in BlankLineParagraphs(text) : Len(p) <= chunk_size
    /\ ParagraphCount(text) >= 2
    /\ Len(chunks) >= 2
    /\ \E k \in 1..Len(chunks) : Contains(chunks[k], "\n\n")

\* C6 as stated: the empty string gives no chunk, and a single
\* blank-line-delimited paragraph shorter than the chunk size (it may contain
\* single line breaks) gives exactly one chunk equal to the trimmed paragraph.
C6_Original ==
    pc = "done" =>
        /\ text = "" => chunks = << >>
        /\ \A p \in BlankLineParagraphs(text) :
             (ParagraphCount(text) = 1 /\ Len(p) < chunk_size) => chunks = << p >>

\* C6 amended: the empty string gives no chunk, and a text with exactly one
\* non-blank line, shorter than the chunk size once trimmed, gives exactly
\* one chunk equal to that trimmed line.
C6_SingleLine ==
    pc = "done" =>
        /\ text = "" => chunks = << >>
        /\ \A k \in NonBlankLines(text) :
             (NonBlankLines(text) = { k } /\ Len(Strip(Lines(text)[k])) < chunk_size)
               => chunks = << Strip(Lines(text)[k]) >>

C6_Witness ==
    /\ pc = "done"
    /\ \E k \in NonBlankLines(text) :
         /\ NonBlankLines(text) = { k }
         /\ Len(Strip(Lines(text)[k])) < chunk_size
         /\ Strip(Lines(text)[k]) # text
         /\ chunks = << Strip(Lines(text)[k]) >>

-----------------------------------------------------------------------------
(* hent_wikipedia.py: fetch_article, save_article, build_knowledge_base *)

\* the Python value None
None == [ none |-> TRUE ]

\* __init__: self.endpoints
Endpoints == { "en", "no" }

\* what the encyclopedia holds for a title: the page object of the response
Page(title, lang) ==
    [ title |-> title,
      fullurl |-> "https://" \o lang \o ".wikipedia.org/wiki/" \o title,
      extract |-> IF title = "Locked-in syndrome" THEN "Locked in.\nALS.\n"
                  ELSE IF title = "Gaze" THEN ""
                  ELSE "Blikk.",
      categories |-> << "Category:" \o title >> ]

\* the ways one call of the API ends
Utfall == { "ok", "ikke_funnet", "feil" }

\* without the try/except of lines 32 and 59: the error leaves the function
fetch_article_mutant(item, utfall) ==
    IF item.lang \notin Endpoints \/ utfall = "feil"
    THEN [ retur |-> None, unntak |-> TRUE ]
    ELSE IF utfall = "ikke_funnet"
    THEN [ retur |-> None, unntak |-> FALSE ]
    ELSE [ retur |-> [ title |-> Page(item.title, item.lang).title,
                       language |-> item.lang,
                       url |-> Page(item.title, item.lang).fullurl,
                       extract |-> Page(item.title, item.lang).extract,
                       categories |-> Page(item.title, item.lang).categories,
                       length |-> Len(Page(item.title, item.lang).extract) ],
           unntak |-> FALSE ]

\* lines 16-61: retur is the value returned, unntak whether an exception
\* leaves the function. self.endpoints[lang] (KeyError), requests.get,
\* raise_for_status and the JSON accesses are all inside the try.
fetch_article(item, utfall) ==
    IF item.lang \notin Endpoints \/ utfall = "feil"
    THEN [ retur |-> None, unntak |-> FALSE ]
    ELSE IF utfall = "ikke_funnet"
    THEN [ retur |-> None, unntak |-> FALSE ]
    ELSE [ retur |-> [ title |-> Page(item.title, item.lang).title,
                       language |-> item.lang,
                       url |-> Page(item.title, item.lang).fullurl,
                       extract |-> Page(item.title, item.lang).extract,
                       categories |-> Page(item.title, item.lang).categories,
                       length |-> Len(Page(item.title, item.lang).extract) ],
           unntak |-> FALSE ]

Digits == "0123456789"

\* the regular expression class [\w\s-] of line 91
WordSpaceHyphen(c) ==
    \/ \E i \in 1..Len(Uppers) : Chr(Uppers, i) = c \/ Chr(Lowers, i) = c
    \/ \E i \in 1..Len(Digits) : Chr(Digits, i) = c
    \/ c = "_" \/ c = "-" \/ c \in Whitespace

RECURSIVE SafeFrom(_, _)
\* the characters of title from position i on, filtered and replaced
SafeFrom(title, i) ==
    IF i > Len(title) THEN ""
    ELSE (IF ~WordSpaceHyphen(Chr(title, i)) THEN ""
          ELSE IF Chr(title, i) = " " THEN "_" ELSE Chr(title, i))
         \o SafeFrom(title, i + 1)

\* line 91: re.sub(r'[^\w\s-]', '', title).replace(' ', '_')
SafeTitle(title) == SafeFrom(title, 1)

\* line 92
Filename(article_data) ==
    article_data.language \o "_" \o SafeTitle(article_data.title) \o ".json"

\* line 63: the default chunk_size
DefaultChunkSize == 1000

\* lines 96-116: structured_data
StructuredData(article_data) ==
    LET cs == chunk_text(article_data.extract, DefaultChunkSize)
    IN  [ metadata |-> [ title |-> article_data.title,
                         language |-> article_data.language,
                         source_url |-> article_data.url,
                         categories |-> article_data.categories,
                         total_length |-> article_data.length,
                         chunk_count |-> Len(cs) ],
          chunks |-> ChunkRecords(SafeTitle(article_data.title), cs, 0),
          full_text |-> article_data.extract ]

\* line 118: open(filepath, 'w') replaces the file of that name
WriteFile(disk, name, content) ==
    { f \in disk : f.filename # name } \cup { [ filename |-> name, innhold |-> content ] }

-----------------------------------------------------------------------------
(* SpecBuild: build_knowledge_base over a configured article list *)

ItemPool ==
    { [ title |-> "Locked-in syndrome", lang |-> "en" ],
      [ title |-> "Øyesporing", lang |-> "no" ],
      [ title |-> "Gaze", lang |-> "de" ] }

\* the most articles of a generated articles_config
MaxConfig == 3

InitBuild ==
    /\ ServerIdle /\ SokIdle /\ ChunkIdle
    /\ kunnskap = << >>
    /\ articles_config \in UNION { [ 1..n -> ItemPool ] : n \in 0..MaxConfig }
    /\ idx = 1
    /\ data = None
    /\ filer = {}
    /\ logg = << >>
    /\ sovet = 0
    /\ pc = "hent"

\* lines 129-131: print, then fetch_article with whatever the network does
Hent ==
    /\ pc = "hent" /\ idx <= Len(articles_config)
    /\ \E utfall \in Utfall :
         LET item == articles_config[idx]
             r == fetch_article(item, utfall)
         IN  /\ data' = r.retur
             /\ logg' = logg \o << [ hva |-> "Henter", item |-> item ],
                                   [ hva |-> "fetch_article", retur |-> r.retur ] >>
             /\ pc' = IF r.unntak THEN "traceback" ELSE "lagre"
    /\ UNCHANGED << articles_config, idx, filer, sovet,
                    kunnskap, serverVars, sokVars, chunkVars >>

\* lines 133-134: save_article when fetch_article returned an article
Lagre ==
    /\ pc = "lagre"
    /\ IF data # None
       THEN /\ filer' = WriteFile(filer, Filename(data), StructuredData(data))
            /\ logg' = Append(logg, [ hva |-> "Lagret", filename |-> Filename(data) ])
       ELSE UNCHANGED << filer, logg >>
    /\ pc' = "sov"
    /\ UNCHANGED << articles_config, idx, data, sovet,
                    kunnskap, serverVars, sokVars, chunkVars >>

\* line 137: time.sleep(1), then the next item of the for loop
Sov ==
    /\ pc = "sov"
    /\ sovet' = sovet + 1
    /\ logg' = Append(logg, [ hva |-> "sleep" ])
    /\ idx' = idx + 1
    /\ pc' = "hent"
    /\ UNCHANGED << articles_config, data, filer,
                    kunnskap, serverVars, sokVars, chunkVars >>

\* line 139: the loop is exhausted
Ferdig ==
    /\ pc = "hent" /\ idx > Len(articles_config)
    /\ logg' = Append(logg, [ hva |-> "Ferdig" ])
    /\ pc' = "done"
    /\ UNCHANGED << articles_config, idx, data, filer, sovet,
                    kunnskap, serverVars, sokVars, chunkVars >>

NextBuild == Hent \/ Lagre \/ Sov \/ Ferdig

SpecBuild == InitBuild /\ [][NextBuild]_vars

\* the statement after the current one: the moves of pc that NextBuild allows
Fremdrift ==
    \/ pc = "hent" /\ pc' \in { "lagre", "done" }
    \/ pc = "lagre" /\ pc' = "sov"
    \/ pc = "sov" /\ pc' = "hent"

\* the script is sequential: every call returns and the next statement runs
FairSpecBuild == SpecBuild /\ WF_pc(Fremdrift)

-----------------------------------------------------------------------------
(* Ingestion: what the run is compared with *)

IndicesOf(hva) == { k \in 1..Len(logg) : logg[k].hva = hva }

\* the k-th smallest element of a set of indices
RECURSIVE Nth(_, _)
Nth(S, k) ==
    LET lo == CHOOSE x \in S : \A y \in S : x <= y
    IN  IF k = 1 THEN lo ELSE Nth(S \ { lo }, k - 1)

BuildOutcome ==
    \* one fetch per configured article, in list order
    /\ Cardinality(IndicesOf("Henter")) = Len(articles_config)
    /\ \A i \in 1..Len(articles_config) :
         LET h == Nth(IndicesOf("Henter"), i)
         IN  /\ logg[h].item = articles_config[i]
             /\ logg[h + 1].hva = "fetch_article"
             \* a fetched article is saved at once and its file is on disk
             /\ logg[h + 1].retur # None =>
                  /\ logg[h + 2] = [ hva |-> "Lagret",
                                     filename |-> Filename(logg[h + 1].retur) ]
                  /\ \E f \in filer : f.filename = Filename(logg[h + 1].retur)
                  /\ logg[h + 3].hva = "sleep"
             \* a failed fetch saves nothing and the loop goes on
             /\ logg[h + 1].retur = None => logg[h + 2].hva = "sleep"
             \* the next fetch starts only after the delay
             /\ i > 1 => logg[h - 1].hva = "sleep"
    /\ sovet = Len(articles_config)
    /\ logg[Len(logg)].hva = "Ferdig"

\* C7: a fetch that ends in not-found or in an error does not abort the
\* batch: every article whose fetch succeeds is saved as a file, articles are
\* processed one after another in list order with the delay after each
\* fetch, and the run ends after the last configured article.
C7_BatchContinues ==
    /\ [](pc = "done" => BuildOutcome)
    /\ <>(pc = "done")

\* a not-found and an error, each followed by a successful fetch that is saved
C7_Witness ==
    /\ pc = "done"
    /\ Len(articles_config) = 3
    /\ \E a, b \in IndicesOf("fetch_article") :
         /\ a < b
         /\ logg[a].retur = None
         /\ logg[b].retur # None
         /\ \E f \in filer : f.filename = Filename(logg[b].retur)
    /\ \E a, b \in IndicesOf("fetch_article") :
         a < b /\ logg[a].retur # None /\ logg[b].retur = None

-----------------------------------------------------------------------------
(* smart_server.py: the completion client and the two answer functions.
   A function's value is a record: what it returns, the calls it made
   (spor), the global client afterwards, and the exception leaving it. *)

IngenFeil == ""

\* lines 15-23 (openai imported) and 27-28 (ImportError)
get_openai_client(cl, env) ==
    IF ~env.openai
    THEN [ retur |-> None, client |-> cl, unntak |-> "OpenAI ikke tilgjengelig" ]
    ELSE IF cl = "None"
         THEN IF ~env.api_key
              THEN [ retur |-> None, client |-> cl,
                     unntak |-> "OPENAI_API_KEY ikke satt" ]
              ELSE [ retur |-> "OpenAI", client |-> "OpenAI", unntak |-> IngenFeil ]
         ELSE [ retur |-> cl, client |-> cl, unntak |-> IngenFeil ]

\* line 120: the slice [:500]
KontekstMaks == 500

RECURSIVE KildeTekster(_)
\* line 120: "\n\n".join(f"Kilde: {k['kilde']}\n{k['tekst'][:500]}" ...)
KildeTekster(kontekst) ==
    IF kontekst = << >> THEN ""
    ELSE "Kilde: " \o Head(kontekst).kilde \o "\n"
         \o SubSeq(Head(kontekst).tekst, 1, Min(KontekstMaks, Len(Head(kontekst).tekst)))
         \o (IF Len(kontekst) > 1 THEN "\n\n" ELSE "")
         \o KildeTekster(Tail(kontekst))

\* lines 109-120 (the instruction text shortened to its first and last line)
FaktaPrompt(kontekst) ==
    "Du er en kunnskapsrik, empatisk og hjelpsom assistent [...] "
    \o "Fakta fra pålitelige kilder:\n" \o KildeTekster(kontekst)

\* line 145 (shortened)
GenerellPrompt == "Du er en hjelpsom, vennlig assistent på en nettside om øyestyring. [...]"

\* lines 125-133 and 142-150: the request sent to the completion API
Create(system_prompt, q, max_tokens, api) ==
    [ op |-> "chat.completions.create", model |-> "gpt-4",
      system |-> system_prompt, user |-> q, max_tokens |-> max_tokens,
      svar |-> api ]

\* lines 106-136. The statements of lines 124-134 are the body of the try
\* of line 122 (line 125 has lost its indentation in the file).
generer_svar_med_kunnskap(q, kontekst, cl, env, api) ==
    LET c == get_openai_client(cl, env)
        k == Create(FaktaPrompt(kontekst), q, 500, api)
    IN  IF c.unntak # IngenFeil
        THEN [ retur |-> "Beklager, jeg har tekniske problemer. Feil: " \o c.unntak,
               spor |-> << [ op |-> "get_openai_client", unntak |-> c.unntak ] >>,
               client |-> c.client, unntak |-> IngenFeil ]
        ELSE IF ~api.ok
        THEN [ retur |-> "Beklager, jeg har tekniske problemer. Feil: " \o api.feil,
               spor |-> << k >>, client |-> c.client, unntak |-> IngenFeil ]
        ELSE [ retur |-> api.text, spor |-> << k >>, client |-> c.client,
               unntak |-> IngenFeil ]

\* lines 138-153 without the try/except
generer_svar_generell_mutant(q, cl, api) ==
    LET k == Create(GenerellPrompt, q, 300, api)
    IN  IF cl = "udefinert"
        THEN [ retur |-> None, spor |-> << >>, client |-> cl,
               unntak |-> "name 'client' is not defined" ]
        ELSE IF cl = "None"
        THEN [ retur |-> None, spor |-> << >>, client |-> cl,
               unntak |-> "'NoneType' object has no attribute 'chat'" ]
        ELSE IF ~api.ok
        THEN [ retur |-> None, spor |-> << k >>, client |-> cl, unntak |-> api.feil ]
        ELSE [ retur |-> api.text, spor |-> << k >>, client |-> cl,
               unntak |-> IngenFeil ]

\* lines 138-153: line 142 reads the global client as it is (it does not
\* call get_openai_client); every exception is caught by line 152
generer_svar_generell(q, cl, api) ==
    LET k == Create(GenerellPrompt, q, 300, api)
        beklager == "Beklager, jeg har problemer med å svare akkurat nå."
    IN  IF cl = "udefinert"
        THEN [ retur |-> beklager,
               spor |-> << [ op |-> "client.chat",
                             unntak |-> "name 'client' is not defined" ] >>,
               client |-> cl, unntak |-> IngenFeil ]
        ELSE IF cl = "None"
        THEN [ retur |-> beklager,
               spor |-> << [ op |-> "client.chat",
                             unntak |-> "'NoneType' object has no attribute 'chat'" ] >>,
               client |-> cl, unntak |-> IngenFeil ]
        ELSE IF ~api.ok
        THEN [ retur |-> beklager, spor |-> << k >>, client |-> cl,
               unntak |-> IngenFeil ]
        ELSE [ retur |-> api.text, spor |-> << k >>, client |-> cl,
               unntak |-> IngenFeil ]

RECURSIVE KildeInfo(_)
\* line 184
KildeInfo(fakta) ==
    IF fakta = << >> THEN << >>
    ELSE << [ kilde |-> Head(fakta).kilde, url |-> Head(fakta).url ] >>
         \o KildeInfo(Tail(fakta))

\* line 187: the context when nothing was found
IngenFakta ==
    << [ tekst |-> "Ingen spesifikke fakta funnet i kunnskapsbasen.",
         kilde |-> "System", url |-> "" ] >>

KunnskapEtterSokMutant(kb) ==
    [ a \in 1..Len(kb) |->
        [ kb[a] EXCEPT !.artikkel.chunks = Reverse(kb[a].artikkel.chunks) ] ]

\* lines 85-100: the loops read kunnskap and build new dicts
KunnskapEtterSok(kb) == kb

\* Flask's answer to an exception that leaves a view function
InternalServerError == [ rute |-> "/spor", status |-> 500 ]

\* lines 190-196: the fact-based response, r being what
\* generer_svar_med_kunnskap gave
FaktaRespons(q, fakta, r, kb) ==
    [ respons |->
        IF r.unntak # IngenFeil THEN InternalServerError
        ELSE [ rute |-> "/spor", status |-> 200,
               body |-> [ sporsmal |-> q, svar |-> r.retur,
                          kilde |-> "faktabasert",
                          kilder |-> KildeInfo(fakta),
                          brukte_lokal_kb |-> TRUE ] ],
      spor |-> << [ op |-> "sok_lokal_kunnskap", sporsmal |-> q ] >> \o r.spor,
      client |-> r.client,
      kunnskap |-> KunnskapEtterSok(kb) ]

\* lines 179-188: fakta being what sok_lokal_kunnskap gave
FaktaSvar(q, fakta, kb, cl, env, api) ==
    FaktaRespons(q, fakta,
                 generer_svar_med_kunnskap(
                     q, IF fakta # << >> THEN fakta ELSE IngenFakta, cl, env, api),
                 kb)

\* lines 202-207: the generic response, r being what generer_svar_generell gave
GenerellRespons(q, r, kb) ==
    [ respons |->
        IF r.unntak # IngenFeil THEN InternalServerError
        ELSE [ rute |-> "/spor", status |-> 200,
               body |-> [ sporsmal |-> q, svar |-> r.retur,
                          kilde |-> "generell",
                          brukte_lokal_kb |-> FALSE ] ],
      spor |-> r.spor, client |-> r.client, kunnskap |-> kb ]

\* lines 164-207: the response, the calls made, client and kunnskap afterwards
chat_endpoint(q, kb, cl, env, api) ==
    IF q = ""
    THEN [ respons |-> [ rute |-> "/spor", status |-> 400,
                         body |-> [ error |-> "Mangler spørsmål" ] ],
           spor |-> << >>, client |-> cl, kunnskap |-> kb ]
    ELSE IF er_domenesporsmal(q)
    THEN FaktaSvar(q, sok_lokal_kunnskap(q, kb), kb, cl, env, api)
    ELSE GenerellRespons(q, generer_svar_generell(q, cl, api), kb)

RECURSIVE LastInn(_, _)
\* lines 62-65: kunnskap[fil.stem] = data for every file, in glob order
LastInn(kb, filene) ==
    IF filene = << >> THEN kb
    ELSE LET fil == Head(filene)
         IN  LastInn(IF \E a \in 1..Len(kb) : kb[a].navn = fil.navn
                     THEN [ a \in 1..Len(kb) |->
                              IF kb[a].navn = fil.navn THEN fil ELSE kb[a] ]
                     ELSE Append(kb, fil),
                     Tail(filene))

\* line 240: the slice [:1500]
AvatarTekstMaks == 1500

-----------------------------------------------------------------------------
(* Spec: the service process *)

\* the end-to-end example of the spec: one article with two chunks
FilEndeTilEnde ==
    Fil("en", "Eye_tracking", "Eye tracking",
        "https://en.wikipedia.org/wiki/Eye_tracking", << T1, T0 >>)

ServerMapper == { << >>, << FilEndeTilEnde >>, << FilGaze, FilALS >> }

ServerQuestions ==
    { "", "What is gaze tracking?", "What's the weather today?",
      "An eyewitness report", "HVA ER ALS", "øyestyring" }

\* what the completion API does with a request
ApiSvar ==
    { [ ok |-> TRUE, text |-> "Hei!" ], [ ok |-> FALSE, feil |-> "Connection error." ] }

IngenRespons == [ rute |-> "", status |-> 0 ]

Serving == fase \in { "app.run", "app.run (debug)" }

Init ==
    /\ SokIdle /\ ChunkIdle /\ BuildIdle /\ pc = "-"
    /\ fase = "__main__"
    /\ mappe \in ServerMapper
    /\ miljo \in [ openai : BOOLEAN, api_key : BOOLEAN ]
    \* lines 10-28: client = None, or the name is never bound
    /\ client = IF miljo.openai THEN "None" ELSE "udefinert"
    \* line 33
    /\ kunnskap = << >>
    /\ respons = IngenRespons
    /\ kall = << >>

\* lines 271-275, and 277-282 once the first app.run has returned:
\* last_inn_kunnskap(), then the server accepts requests
LastInnKunnskap ==
    /\ fase \in { "__main__", "__main__ (2)" }
    /\ kunnskap' = LastInn(kunnskap, mappe)
    /\ fase' = IF fase = "__main__" THEN "app.run" ELSE "app.run (debug)"
    /\ UNCHANGED << mappe, client, miljo, respons, kall,
                    sokVars, chunkVars, buildVars, pc >>

\* line 275: app.run returns when the server is interrupted
AppRunReturns ==
    /\ fase = "app.run"
    /\ fase' = "__main__ (2)"
    /\ UNCHANGED << mappe, kunnskap, client, miljo, respons, kall,
                    sokVars, chunkVars, buildVars, pc >>

\* POST /spor
ChatEndpoint ==
    /\ Serving
    /\ \E q \in ServerQuestions, api \in ApiSvar :
         \E r \in { chat_endpoint(q, kunnskap, client, miljo, api) } :
             /\ respons' = r.respons
             /\ kall' = r.spor
             /\ client' = r.client
             /\ kunnskap' = r.kunnskap
             \* line 167: the local sporsmal
             /\ sporsmal' = q
    /\ UNCHANGED << fase, mappe, miljo, alle_ord, resultater,
                    chunkVars, buildVars, pc >>

\* GET /status, lines 209-215
Status ==
    /\ Serving
    /\ respons' = [ rute |-> "/status", status |-> 200,
                    body |-> [ status |-> "OK", lokale_artikler |-> Len(kunnskap) ] ]
    /\ kall' = << >>
    /\ UNCHANGED << fase, mappe, kunnskap, client, miljo,
                    sokVars, chunkVars, buildVars, pc >>

\* POST /snakk, lines 217-261: heygen is the status the avatar API answers
\* with, or "unntak" when requests.post raises
SnakkMedAvatar ==
    /\ Serving
    /\ \E tekst \in { "", "Hei!" }, heygen \in { "200", "401", "unntak" } :
         IF tekst = ""
         THEN /\ respons' = [ rute |-> "/snakk", status |-> 400,
                              body |-> [ error |-> "Mangler tekst" ] ]
              /\ kall' = << >>
         ELSE /\ kall' = << [ op |-> "requests.post",
                              text |-> SubSeq(tekst, 1, Min(AvatarTekstMaks, Len(tekst))),
                              timeout |-> 10 ] >>
              /\ respons' =
                   IF heygen = "200"
                   THEN [ rute |-> "/snakk", status |-> 200,
                          body |-> [ status |-> "ok", melding |-> "Avataren snakker" ] ]
                   ELSE [ rute |-> "/snakk", status |-> 500,
                          body |-> [ status |-> "feil",
                                     melding |-> IF heygen = "unntak" THEN "unntak"
                                                 ELSE "Heygen svarte: " \o heygen ] ]
    /\ UNCHANGED << fase, mappe, kunnskap, client, miljo,
                    sokVars, chunkVars, buildVars, pc >>

Next == LastInnKunnskap \/ AppRunReturns \/ ChatEndpoint \/ Status \/ SnakkMedAvatar

Spec == Init /\ [][Next]_vars

-----------------------------------------------------------------------------
(* The service: what the responses are compared with *)

\* a domain word occurs at some position of the lowercased question
InDomain(q) ==
    \E l \in { Lower(q) } :
      \E k \in 1..Len(DOMENE_ORD), i \in 1..Len(l) :
        /\ i + Len(DOMENE_ORD[k]) - 1 <= Len(l)
        /\ SubSeq(l, i, i + Len(DOMENE_ORD[k]) - 1) = DOMENE_ORD[k]

SporAnswered == respons.rute = "/spor" /\ sporsmal # ""

Searched == \E e \in Range(kall) : e.op = "sok_lokal_kunnskap"

Completions == { e \in Range(kall) : e.op = "chat.completions.create" }

\* C4: for a /spor request with a non-empty question the fact-based path
\* (retrieval, domain prompt, brukte_lokal_kb = true) is taken exactly when
\* the lowercased question contains a DOMENE_ORD entry at any position;
\* otherwise the generic path, without retrieval, brukte_lokal_kb = false.
C4_DomainRouting ==
    SporAnswered =>
        /\ respons.status = 200
        /\ respons.body.brukte_lokal_kb <=> InDomain(sporsmal)
        /\ InDomain(sporsmal) =>
             /\ respons.body.kilde = "faktabasert"
             /\ Searched
             /\ \A e \in Completions : e.system # GenerellPrompt
        /\ ~InDomain(sporsmal) =>
             /\ respons.body.kilde = "generell"
             /\ ~Searched
             /\ \A e \in Completions : e.system = GenerellPrompt

\* "eye" inside "eyewitness" routes the question to the fact-based path
C4_Witness ==
    /\ SporAnswered
    /\ sporsmal = "An eyewitness report"
    /\ respons.status = 200
    /\ respons.body.brukte_lokal_kb
    /\ Searched

\* the completion call of the last request failed: no key at first use,
\* no client, or the call raised
CompletionFailed ==
    \/ \E e \in Range(kall) : e.op \in { "get_openai_client", "client.chat" }
    \/ \E e \in Completions : ~e.svar.ok

\* C8: a failure of the completion call while handling /spor with a
\* non-empty question is caught in the answer function and returned as an
\* apology in svar of a normal response; none leaves chat_endpoint, on
\* either path.
C8_FailuresCaught ==
    SporAnswered =>
        /\ respons.status = 200
        /\ CompletionFailed => SubSeq(respons.body.svar, 1, 9) = "Beklager,"

\* the generic path with the API call raising
C8_Witness ==
    /\ SporAnswered
    /\ respons.status = 200
    /\ ~respons.body.brukte_lokal_kb
    /\ \E e \in Completions : ~e.svar.ok
    /\ respons.body.svar = "Beklager, jeg har problemer med å svare akkurat nå."

\* the fact-based path with no API key at the first use of the client
C8_WitnessNoKey ==
    /\ SporAnswered
    /\ respons.status = 200
    /\ respons.body.brukte_lokal_kb
    /\ \E e \in Range(kall) : e.op = "get_openai_client"
    /\ SubSeq(respons.body.svar, 1, 9) = "Beklager,"

\* C9 as stated: for every out-of-domain question, in every state of the
\* service, generer_svar_generell calls the completion API with the generic
\* system prompt and returns the call's text when the call succeeds.
C9_GenericCallsApi ==
    (SporAnswered /\ ~InDomain(sporsmal)) =>
        \E e \in Completions :
            /\ e.system = GenerellPrompt
            /\ e.user = sporsmal
            /\ e.svar.ok => (respons.status = 200 /\ respons.body.svar = e.svar.text)

\* C10: once last_inn_kunnskap has loaded the knowledge base, no request
\* handler changes kunnskap: while the server is serving, every step leaves
\* the mapping, its articles and their chunks as they were.
C10_KunnskapReadOnly ==
    [][ (Serving /\ fase' = fase) => kunnskap' = kunnskap ]_vars

\* a fact-based answer with sources has been given from a loaded knowledge base
C10_Witness ==
    /\ Serving
    /\ kunnskap # << >>
    /\ SporAnswered
    /\ respons.status = 200
    /\ respons.body.brukte_lokal_kb
    /\ respons.body.kilder # << >>

====
